---- MODULE Spec2Model ----
(***************************************************************************)
(* Course outline tree of openedx/features/course_experience/utils.py:     *)
(* get_course_outline_block_tree builds a tree from the flat block map of  *)
(* the blocks API, sets the default flags, marks completion, and the       *)
(* caller asks get_resume_block for the block to resume at.                *)
(*                                                                         *)
(* A block is a Python dict that is shared by reference: populate_children *)
(* stores all_blocks[child_id] itself in the parent's list.  The map       *)
(* `blocks` is therefore the heap: a child entry is either still an id     *)
(* (ref = FALSE) or the block object all_blocks[id] (ref = TRUE), and a    *)
(* flag written through one parent is seen through every other.            *)
(*                                                                         *)
(* Block keys (block.serializer.instance, full_block_key) are the ids of   *)
(* the flat map.  The request-scoped memoisation of @request_cached is not *)
(* modelled: every behaviour is one call of get_course_outline_block_tree. *)
(* A RecursionError stands for Python's "maximum recursion depth exceeded" *)
(* (a RuntimeError before Python 3.5).                                     *)
(*                                                                         *)
(* Three more components have sections and specifications of their own:    *)
(* the visibility of team discussions (lms/djangoapps/teams/api.py), the   *)
(* first-purchase discount (openedx/features/discounts/applicability.py)   *)
(* and the backfill_history management command, alone and run again over   *)
(* the same input.  The variables of the components a specification is not *)
(* about stay at their idle values.                                        *)
(***************************************************************************)
EXTENDS Integers, Sequences, FiniteSets

VARIABLES
    blocks,       \* all_blocks['blocks']: id -> block dict (the heap)
    flat,         \* the child-id lists as the blocks API returned them
    root,         \* all_blocks['root']
    user,         \* TRUE: an authenticated user was passed, FALSE: user=None
    position,     \* student-module state: id -> stored 'position' (0: none)
    completions,  \* BlockCompletion.get_course_completions: key -> value
    latest,       \* get_latest_block_completed's full_block_key (0: None)
    pc,           \* where the request is
    error,        \* the exception that left get_course_outline_block_tree
    retval,       \* what get_course_outline_block_tree returned (0: None)
    resume,       \* the outcome of get_resume_block(retval)
    looked,       \* blocks mark_last_accessed fetched the student module of
    teams,        \* the CourseTeam table: team -> discussion topic and users
    visible,      \* the last call of discussion_visibile_by_user
    facts,        \* what the collaborators of can_receive_discount answer
    now,          \* the clock (timezone.now(), datetime.now)
    session,      \* the keys of the session the requests share
    events,       \* the events handed to segment.track, oldest first
    discount,     \* request -> its call of can_receive_discount or
                  \* _is_in_holdback: where it is and what it holds
    input_file,   \* the ids of the data lines of the input file, in order
    byte_size,    \* options['size'], in bytes
    historical,   \* the historical table: id -> number of its '+' rows
    offset,       \* data lines of the input file read so far
    command,      \* where the backfill_history command is
    fetched,      \* count = cursor.fetchone()[0] for the batch at offset
    other,        \* a second run of the command, started while the first runs
    outcomes      \* what the command did with each batch, in order, and
                  \* how the run before it ended

outline_vars == <<blocks, flat, root, user, position, completions, latest, pc,
                  error, retval, resume, looked>>
teams_vars == <<teams, visible>>
discount_vars == <<facts, now, session, events, discount>>
backfill_vars == <<input_file, byte_size, historical, offset, command,
                   fetched, other, outcomes>>

vars == <<outline_vars, teams_vars, discount_vars, backfill_vars>>

\* No call was made.
NoCall == [st |-> "none"]

\* A run of the backfill_history command that was not started.
NotStarted == [command |-> "idle", offset |-> 0, count |-> 0]

\* The teams, the discounts and the backfill command are not involved.
TeamsIdle == teams = <<>> /\ visible = NoCall
DiscountIdle ==
    /\ facts = <<>>
    /\ now = 0
    /\ session = {}
    /\ events = <<>>
    /\ discount = <<>>
BackfillIdle ==
    /\ input_file = <<>>
    /\ byte_size = 0
    /\ historical = <<>>
    /\ offset = 0
    /\ command = "idle"
    /\ fetched = 0
    /\ other = NotStarted
    /\ outcomes = <<>>

\* No request for a course outline is involved.
OutlineIdle ==
    /\ blocks = <<>>
    /\ flat = <<>>
    /\ root = 0
    /\ user = FALSE
    /\ position = <<>>
    /\ completions = <<>>
    /\ latest = 0
    /\ pc = "idle"
    /\ error = "none"
    /\ retval = 0
    /\ resume = NoCall
    /\ looked = {}

\* ------------------------------------------------------------------ bounds

\* Blocks of a flat map.
MaxBlocks == 3
\* Child references of a flat map that need not be a tree (all lists together).
MaxRefs == 3
\* Largest stored position.
MaxPos == 3

\* ------------------------------------------------------------ block values

\* Python's None, for a returned block and for the latest completion.
None == 0

\* A flag a dict does not carry, and the two values the code stores in it.
Absent == "absent"
False == "false"
True == "true"

\* The completion value of a BlockCompletion row: 0.0 or 1.0.
CompletionValues == {0, 1}

\* A child entry: an id of the flat map, or the resolved block object.
IdEntry(k) == [ref |-> FALSE, id |-> k]
RefEntry(k) == [ref |-> TRUE, id |-> k]

\* The block dict the blocks API serialises: no decoration fields yet.
\* An absent 'children' field and an empty list behave alike in every
\* function of the module (block.get('children', []) and its truth value).
NewBlock(kids, type, denied) ==
    [children |-> [i \in 1..Len(kids) |-> IdEntry(kids[i])],
     type |-> type,
     denied |-> denied,
     complete |-> Absent,
     resume_block |-> Absent]

Ok(h) == [st |-> "ok", h |-> h]
Raise(exc, h) == [st |-> exc, h |-> h]

\* ---------------------------------------------------------- tree building

RECURSIVE populate_children(_, _, _)
RECURSIVE populate_loop(_, _, _, _)

\* populate_loop with a missing child skipped instead of looked up.
populate_loop_skipping(h, b, i, active) ==
    IF i > Len(h[b].children) THEN Ok(h)
    ELSE LET child == h[b].children[i] IN
         IF child.ref THEN Raise("TypeError", h)
         ELSE IF child.id \notin DOMAIN h THEN populate_loop(h, b, i + 1, active)
         ELSE LET sub == populate_children(h, child.id, active) IN
              IF sub.st # "ok" THEN sub
              ELSE populate_loop(
                       [sub.h EXCEPT ![b].children[i] = RefEntry(child.id)],
                       b, i + 1, active)

\* Iterations i.. of the for loop of populate_children(block b).
\* all_blocks[child_id] raises TypeError for a child that is already a
\* block dict (unhashable) and KeyError for an id the map does not hold.
populate_loop(h, b, i, active) ==
    IF i > Len(h[b].children) THEN Ok(h)
    ELSE LET child == h[b].children[i] IN
         IF child.ref THEN Raise("TypeError", h)
         ELSE IF child.id \notin DOMAIN h THEN Raise("KeyError", h)
         ELSE LET sub == populate_children(h, child.id, active) IN
              IF sub.st # "ok" THEN sub
              ELSE populate_loop(
                       [sub.h EXCEPT ![b].children[i] = RefEntry(child.id)],
                       b, i + 1, active)

\* populate_children that resolves the children of the block it is given
\* and leaves theirs as ids.
populate_children_shallow(h, b, active) ==
    IF active = {} THEN populate_loop(h, b, 1, {<<b, h>>}) ELSE Ok(h)

\* populate_children(block, all_blocks).  `active` holds the calls on the
\* stack with the heap each started from: a call that starts again from
\* the same block and heap repeats itself for ever, which Python ends with
\* RecursionError.
populate_children(h, b, active) ==
    IF <<b, h>> \in active THEN Raise("RecursionError", h)
    ELSE populate_loop(h, b, 1, active \cup {<<b, h>>})

\* ------------------------------------------------------------ default flags

RECURSIVE set_last_accessed_default(_, _)
RECURSIVE default_loop(_, _, _)

\* for child in block.get('children', []): set_last_accessed_default(child)
default_loop(h, b, i) ==
    IF i > Len(h[b].children) THEN h
    ELSE default_loop(set_last_accessed_default(h, h[b].children[i].id), b, i + 1)

\* set_last_accessed_default with True as the default of resume_block.
set_last_accessed_default_marked(h, b) ==
    [x \in DOMAIN h |-> [h[x] EXCEPT !.resume_block = True, !.complete = False]]

\* set_last_accessed_default(block)
set_last_accessed_default(h, b) ==
    default_loop([h EXCEPT ![b].resume_block = False, ![b].complete = False], b, 1)

\* ------------------------------------------------------- completion marking

\* Completed by the presence of the key alone, whatever its value.
Completed_present(comps, key) == key \in DOMAIN comps

\* course_block_completions.get(block_key) is true: an entry that is not 0.0.
Completed(comps, key) == key \in DOMAIN comps /\ comps[key] # 0

\* Completable with the discussions counted in.
Completable_all(h, b) == 1..Len(h[b].children)

\* child.get('type') != 'discussion', by index into block['children'].
Completable(h, b) ==
    {i \in 1..Len(h[b].children) : h[h[b].children[i].id].type # "discussion"}

\* HasChildren without the test: all() is asked of every block.
HasChildren_always(h, b) == TRUE

\* The test that guards the walk over the children: block.get('children').
HasChildren(h, b) == Len(h[b].children) > 0

RECURSIVE recurse_mark_complete(_, _, _, _)
RECURSIVE mark_children(_, _, _, _, _)

\* mark_children that does not lift resume_block to the parent.
mark_children_unlifted(comps, lat, h, b, idx) ==
    IF idx > Len(h[b].children) THEN h
    ELSE mark_children(comps, lat,
                       recurse_mark_complete(comps, lat, h, h[b].children[idx].id),
                       b, idx + 1)

\* for idx in range(len(block['children'])): recurse, then lift resume_block.
mark_children(comps, lat, h, b, idx) ==
    IF idx > Len(h[b].children) THEN h
    ELSE LET c == h[b].children[idx].id
             sub == recurse_mark_complete(comps, lat, h, c)
             up == IF sub[c].resume_block = True
                   THEN [sub EXCEPT ![b].resume_block = True]
                   ELSE sub
         IN mark_children(comps, lat, up, b, idx + 1)

\* recurse_mark_complete that never marks the block of the latest completion.
recurse_mark_complete_no_latest(comps, lat, h, b) ==
    LET own == IF Completed(comps, b)
               THEN [h EXCEPT ![b].complete = True]
               ELSE h
    IN IF ~HasChildren(own, b) THEN own
       ELSE LET walked == mark_children(comps, lat, own, b, 1) IN
            IF \A i \in Completable(walked, b) :
                   walked[walked[b].children[i].id].complete = True
            THEN [walked EXCEPT ![b].complete = True]
            ELSE walked

\* recurse_mark_complete(course_block_completions, latest_completion, block)
recurse_mark_complete(comps, lat, h, b) ==
    LET own == IF Completed(comps, b)
               THEN [h EXCEPT ![b].complete = True,
                              ![b].resume_block = IF b = lat THEN True ELSE @]
               ELSE h
    IN IF ~HasChildren(own, b) THEN own
       ELSE LET walked == mark_children(comps, lat, own, b, 1) IN
            IF \A i \in Completable(walked, b) :
                   walked[walked[b].children[i].id].complete = True
            THEN [walked EXCEPT ![b].complete = True]
            ELSE walked

\* --------------------------------------------------------- last accessed

\* PyIndex that takes the position itself as the list index: one too far.
PyIndex_shifted(n, i) ==
    IF 0 <= i + 1 /\ i + 1 < n THEN i + 2
    ELSE IF -n <= i + 1 /\ i + 1 < 0 THEN n + i + 2
    ELSE 0

\* Python's list index: seq[i] for a 0-based or negative i, as the 1-based
\* place in the list; 0 stands for IndexError.
PyIndex(n, i) ==
    IF 0 <= i /\ i < n THEN i + 1
    ELSE IF -n <= i /\ i < 0 THEN n + i + 1
    ELSE 0

\* InRange without the comparison: the stored position is always used.
InRange_always(p, n) == TRUE

\* last_accessed_child_position <= len(block['children'])
InRange(p, n) == p <= n

RECURSIVE mark_last_accessed(_, _, _)

\* mark_last_accessed(user, course_key, block): the heap, the blocks whose
\* student module was fetched, and IndexError if a list index misses.
mark_last_accessed(pos, h, b) ==
    LET p == pos[b]
        n == Len(h[b].children)
    IN IF p # 0 /\ n > 0
       THEN LET h1 == [h EXCEPT ![b].resume_block = True]
                at == IF InRange(p, n) THEN PyIndex(n, p - 1) ELSE PyIndex(n, -1)
            IN IF at = 0 THEN [st |-> "IndexError", h |-> h1, looked |-> {b}]
               ELSE LET c == h1[b].children[at].id
                        h2 == [h1 EXCEPT ![c].resume_block = True]
                    IN IF InRange(p, n)
                       THEN LET sub == mark_last_accessed(pos, h2, c) IN
                            [sub EXCEPT !.looked = @ \cup {b}]
                       ELSE [st |-> "ok", h |-> h2, looked |-> {b}]
       ELSE [st |-> "ok", h |-> h, looked |-> {b}]

\* ------------------------------------------------- the completion pass

\* mark_blocks_completed without the test of the latest completion.
mark_blocks_completed_unguarded(h, b, lat, comps) ==
    recurse_mark_complete(comps, lat, h, b)

\* mark_blocks_completed followed by mark_last_accessed on the same tree.
mark_blocks_completed_and_last(h, b, lat, comps) ==
    mark_last_accessed(position,
                       IF lat # None THEN recurse_mark_complete(comps, lat, h, b) ELSE h,
                       b).h

\* mark_blocks_completed(block, user, course_key): nothing is marked when the
\* learner has no latest completion.
mark_blocks_completed(h, b, lat, comps) ==
    IF lat # None THEN recurse_mark_complete(comps, lat, h, b) ELSE h

\* ---------------------------------------------------------- resume lookup

Found(b) == [st |-> "ok", block |-> b]

\* AccessDenied without the test.
AccessDenied_never(h, b) == FALSE

\* block.get('authorization_denial_reason') is true.
AccessDenied(h, b) == h[b].denied

RECURSIVE get_resume_block(_, _)
RECURSIVE resume_loop(_, _, _)

\* resume_loop that does not descend: the block itself is the result.
resume_loop_shallow(h, b, i) == Found(b)

\* for child in block['children']: the first child with a result wins.
resume_loop(h, b, i) ==
    IF i > Len(h[b].children) THEN Found(b)
    ELSE LET r == get_resume_block(h, h[b].children[i].id) IN
         IF r.st # "ok" \/ r.block # None THEN r
         ELSE resume_loop(h, b, i + 1)

\* get_resume_block that gives up on a marked block without children.
get_resume_block_no_leaf(h, b) ==
    IF AccessDenied(h, b) THEN Found(None)
    ELSE IF h[b].resume_block = Absent THEN [st |-> "KeyError", block |-> None]
    ELSE IF h[b].resume_block # True THEN Found(None)
    ELSE IF Len(h[b].children) = 0 THEN Found(None)
    ELSE resume_loop(h, b, 1)

RECURSIVE Encountered(_, _)
RECURSIVE EncounteredFrom(_, _, _)
\* The blocks get_resume_block(b) calls itself on, b included: the children
\* of a marked, accessible block up to the first that gives a result.
EncounteredFrom(h, b, i) ==
    IF i > Len(h[b].children) THEN {}
    ELSE LET c == h[b].children[i].id
             r == get_resume_block(h, c)
         IN Encountered(h, c) \cup
            (IF r.st # "ok" \/ r.block # None THEN {} ELSE EncounteredFrom(h, b, i + 1))
Encountered(h, b) ==
    {b} \cup (IF ~AccessDenied(h, b) /\ h[b].resume_block = True
              THEN EncounteredFrom(h, b, 1) ELSE {})

\* get_resume_block(block); block['resume_block'] raises KeyError on a dict
\* without the field.
get_resume_block(h, b) ==
    IF AccessDenied(h, b) THEN Found(None)
    ELSE IF h[b].resume_block = Absent THEN [st |-> "KeyError", block |-> None]
    ELSE IF h[b].resume_block # True THEN Found(None)
    ELSE IF Len(h[b].children) = 0 THEN Found(b)
    ELSE resume_loop(h, b, 1)

\* ------------------------------------------------------------------ inputs

RECURSIVE SortedSeq(_)
\* The ids of S in ascending order.
SortedSeq(S) ==
    IF S = {} THEN <<>>
    ELSE LET m == CHOOSE x \in S : \A y \in S : x <= y
         IN <<m>> \o SortedSeq(S \ {m})

\* Flat maps of k blocks that are a course tree rooted at block 1: every
\* other block is the child of one earlier block.
TreeMaps(k) ==
    {[b \in 1..k |-> SortedSeq({c \in 2..k : p[c] = b})] :
        p \in {q \in [2..k -> 1..k] : \A c \in 2..k : q[c] < c}}

RECURSIVE FlatMaps(_, _, _)
\* Every flat map of n blocks whose child lists draw from ids and hold at
\* most budget references together: shared children, cycles, ids the map
\* lacks and blocks nothing refers to are all among them.
FlatMaps(n, ids, budget) ==
    IF n = 0 THEN {<<>>}
    ELSE UNION {{Append(m, s) : m \in FlatMaps(n - 1, ids, budget - Len(s))} :
                   s \in UNION {[1..l -> ids] : l \in 0..budget}}

\* The block type of each block: discussions are the blocks of disc.
TypeOf(disc, b) == IF b \in disc THEN "discussion" ELSE "vertical"

\* What the completion collaborator can answer for a course whose keys are
\* keys: the rows of the learner, and the latest of them (None without rows).
CompletionSets(keys) == UNION {[D -> CompletionValues] : D \in SUBSET keys}
LatestOf(comps) == IF DOMAIN comps = {} THEN {None} ELSE DOMAIN comps

NoResume == [st |-> "none", block |-> None]

\* The state a request starts from.
Request(kids, disc, den, r, u, pos) ==
    /\ blocks = [b \in DOMAIN kids |-> NewBlock(kids[b], TypeOf(disc, b), b \in den)]
    /\ flat = kids
    /\ root = r
    /\ user = u
    /\ position = pos
    /\ completions = <<>>
    /\ latest = None
    /\ pc = "start"
    /\ error = "none"
    /\ retval = None
    /\ resume = NoResume
    /\ looked = {}
    /\ TeamsIdle
    /\ DiscountIdle
    /\ BackfillIdle

\* A request on a well-formed course: any block types and access denials,
\* with or without a user, no stored positions.
Init ==
    \E k \in 1..MaxBlocks :
      \E kids \in TreeMaps(k), disc \in SUBSET (1..k), den \in SUBSET (1..k),
         u \in BOOLEAN :
        Request(kids, disc, den, 1, u, [b \in 1..k |-> 0])

\* A request without a user on any flat map, well-formed or not; the root
\* id is block 1 or the id the map lacks.
InitBuild ==
    \E k \in 1..MaxBlocks :
      \E kids \in FlatMaps(k, 1..(k + 1), MaxRefs), r \in {1, k + 1} :
        Request(kids, {}, {}, r, FALSE, [b \in 1..k |-> 0])

\* A request of a learner on a well-formed course whose blocks each have no
\* stored position or the stored position 1.
InitStored ==
    \E k \in 1..MaxBlocks :
      \E kids \in TreeMaps(k), pos \in [1..k -> {0, 1}] :
        Request(kids, {}, {}, 1, TRUE, pos)

\* A request of a learner on a well-formed course with any stored positions.
InitPositions ==
    \E k \in 1..MaxBlocks :
      \E kids \in TreeMaps(k), pos \in [1..k -> 0..MaxPos] :
        Request(kids, {}, {}, 1, TRUE, pos)

\* ----------------------------------------------------------------- actions

\* course_outline_root_block = all_blocks['blocks'].get(all_blocks['root'], None)
\* and the return of None when there is none.
LookupRoot ==
    /\ pc = "start"
    /\ pc' = IF root \in DOMAIN blocks THEN "populate" ELSE "returned"
    /\ retval' = None
    /\ UNCHANGED <<blocks, flat, root, user, position, completions, latest,
                   error, resume, looked>>
    /\ UNCHANGED <<teams_vars, discount_vars, backfill_vars>>

\* populate_children(course_outline_root_block, all_blocks['blocks']); an
\* exception leaves get_course_outline_block_tree, and without a user the
\* tree is returned as built.
PopulateChildren ==
    /\ pc = "populate"
    /\ LET r == populate_children(blocks, root, {}) IN
        /\ blocks' = r.h
        /\ error' = IF r.st = "ok" THEN error ELSE r.st
        /\ pc' = IF r.st # "ok" THEN "raised"
                 ELSE IF user THEN "defaults" ELSE "returned"
        /\ retval' = IF r.st = "ok" /\ ~user THEN root ELSE retval
    /\ UNCHANGED <<flat, root, user, position, completions, latest, resume,
                   looked>>
    /\ UNCHANGED <<teams_vars, discount_vars, backfill_vars>>

\* set_last_accessed_default(course_outline_root_block)
SetLastAccessedDefault ==
    /\ pc = "defaults"
    /\ blocks' = set_last_accessed_default(blocks, root)
    /\ pc' = "mark"
    /\ UNCHANGED <<flat, root, user, position, completions, latest, error,
                   retval, resume, looked>>
    /\ UNCHANGED <<teams_vars, discount_vars, backfill_vars>>

\* mark_blocks_completed(...) with what the completion collaborator answers,
\* then return course_outline_root_block.
MarkBlocksCompleted ==
    /\ pc = "mark"
    /\ \E comps \in CompletionSets(1..(Len(blocks) + 1)) :
         \E lat \in LatestOf(comps) :
           /\ completions' = comps
           /\ latest' = lat
           /\ blocks' = mark_blocks_completed(blocks, root, lat, comps)
    /\ pc' = "returned"
    /\ retval' = root
    /\ UNCHANGED <<flat, root, user, position, error, resume, looked>>
    /\ UNCHANGED <<teams_vars, discount_vars, backfill_vars>>

\* The caller's get_resume_block on the tree it was given.
GetResumeBlock ==
    /\ pc = "returned"
    /\ retval # None
    /\ resume' = get_resume_block(blocks, retval)
    /\ pc' = "resumed"
    /\ UNCHANGED <<blocks, flat, root, user, position, completions, latest,
                   error, retval, looked>>
    /\ UNCHANGED <<teams_vars, discount_vars, backfill_vars>>

\* mark_last_accessed(user, course_key, course_outline_root_block) on the
\* tree with its default flags.
MarkLastAccessed ==
    /\ pc = "mark"
    /\ LET r == mark_last_accessed(position, blocks, root) IN
        /\ blocks' = r.h
        /\ looked' = r.looked
        /\ error' = IF r.st = "ok" THEN error ELSE r.st
        /\ pc' = IF r.st = "ok" THEN "last_marked" ELSE "raised"
    /\ UNCHANGED <<flat, root, user, position, completions, latest, retval,
                   resume>>
    /\ UNCHANGED <<teams_vars, discount_vars, backfill_vars>>

Next ==
    \/ LookupRoot
    \/ PopulateChildren
    \/ SetLastAccessedDefault
    \/ MarkBlocksCompleted
    \/ GetResumeBlock

NextBuild ==
    \/ LookupRoot
    \/ PopulateChildren

NextMLA ==
    \/ LookupRoot
    \/ PopulateChildren
    \/ SetLastAccessedDefault
    \/ MarkLastAccessed

\* get_course_outline_block_tree and get_resume_block on a well-formed course.
Spec == Init /\ [][Next]_vars

\* Tree construction on any flat map.
SpecBuild == InitBuild /\ [][NextBuild]_vars

\* get_course_outline_block_tree for a learner with stored positions.
SpecPositions == InitStored /\ [][Next]_vars

\* mark_last_accessed applied to the tree with its default flags.
SpecMLA == InitPositions /\ [][NextMLA]_vars

\* =================================================================== teams
\* lms/djangoapps/teams/api.py: whether a discussion is visible to a user.

\* Teams of the CourseTeam table, and users.
MaxTeams == 2
MaxUsers == 2

\* Discussion ids: one more than there can be teams, so that some
\* discussion is the topic of no team.
Discussions == 1..(MaxTeams + 1)

\* Users by id; the id 0 is a user who is a member of no team.
Users == 0..MaxUsers

\* A CourseTeam row: its discussion topic, its members, and the setting the
\* docstrings call "configured to hide the discussions from non-team
\* members", which no code reads.
CourseTeam(topic, members, hides) ==
    [discussion_topic_id |-> topic, users |-> members, hides_discussions |-> hides]

\* The tables of n teams; discussion_topic_id is unique among the rows.
TeamTables(n) ==
    {t \in [1..n -> {CourseTeam(d, m, hd) :
                        d \in Discussions, m \in SUBSET (1..MaxUsers),
                        hd \in BOOLEAN}] :
        \A i, j \in 1..n : i # j => t[i].discussion_topic_id # t[j].discussion_topic_id}

\* get_team_by_discussion(discussion_id): the team, or None.
get_team_by_discussion(table, discussion_id) ==
    IF \E i \in DOMAIN table : table[i].discussion_topic_id = discussion_id
    THEN CHOOSE i \in DOMAIN table : table[i].discussion_topic_id = discussion_id
    ELSE None

\* is_team_discussion_private(team, discussion_id): every team is.
is_team_discussion_private(table, team, discussion_id) == team # None

\* user_is_a_team_member(user, team)
user_is_a_team_member(table, u, team) ==
    IF team # None THEN u \in table[team].users ELSE FALSE

\* discussion_visibile_by_user(discussion_id, user)
discussion_visibile_by_user(table, discussion_id, u) ==
    LET team == get_team_by_discussion(table, discussion_id) IN
    ~is_team_discussion_private(table, team, discussion_id)
        \/ user_is_a_team_member(table, u, team)

\* Any table of at most MaxTeams teams.
InitTeams ==
    /\ \E n \in 0..MaxTeams : teams \in TeamTables(n)
    /\ visible = NoCall
    /\ OutlineIdle
    /\ DiscountIdle
    /\ BackfillIdle

\* A caller asks whether a discussion is visible to a user.
DiscussionVisibleByUser ==
    /\ \E d \in Discussions, u \in Users :
         visible' = [st |-> "ok", discussion_id |-> d, user |-> u,
                     result |-> discussion_visibile_by_user(teams, d, u)]
    /\ UNCHANGED <<teams, outline_vars, discount_vars, backfill_vars>>

NextTeams == DiscussionVisibleByUser

\* Calls of discussion_visibile_by_user on any table of teams.
SpecTeams == InitTeams /\ [][NextTeams]_vars

\* =============================================================== discounts
\* openedx/features/discounts/applicability.py: can_receive_discount,
\* get_discount_expiration_date and _is_in_holdback.  Time is counted in
\* weeks, and two datetimes have the same date() when they are the same
\* week.  A request makes one call; requests are served at the same time,
\* those that have a session share it, and the clock can advance between
\* two reads of it.

\* Dates run from 1 to MaxDate; the clock runs one week longer.
MaxDate == 2
\* Upsellable enrollments of the user in the course.
MaxEnrollments == 2
\* Requests served at the same time.
MaxRequests == 2

\* timedelta(weeks=1)
Week == 1
\* datetime(2020, 8, 1, tzinfo=pytz.UTC), on the scale of the dates.
HoldbackEnd == 2
\* stable_bucketing_hash_group(..., 2, user.username): "Holdback is 50/50".
NumBuckets == 2

Dates == 1..MaxDate
Clock == 1..(MaxDate + Week)
Requests == 1..MaxRequests

DISCOUNT_APPLICABILITY_HOLDBACK == "first_purchase_discount_holdback"

\* What the collaborators answer for one user, one course and one call
\* argument: the waffle flag, the discount_expiration_date argument (None:
\* not passed), the user's upsellable enrollments in the course; of the
\* one enrollment, schedule.start (None: the enrollment has no schedule)
\* and created; course.start; course.has_ended(), the non-expired verified
\* mode, DiscountRestrictionConfig, user.is_anonymous, an enrollment
\* outside the upsellable modes, an entitlement, is_enterprise_learner, and
\* the bucket of the user name.
Facts ==
    [flag_enabled : BOOLEAN,
     discount_expiration_date : {None} \cup Dates,
     enrollments : 0..MaxEnrollments,
     schedule_start : {None} \cup Dates,
     created : {None} \cup Dates,
     course_start : {None} \cup Dates,
     has_ended : BOOLEAN,
     verified_mode : BOOLEAN,
     disabled : BOOLEAN,
     is_anonymous : BOOLEAN,
     other_enrollment : BOOLEAN,
     entitlement : BOOLEAN,
     enterprise : BOOLEAN,
     bucket : 0..(NumBuckets - 1)]

\* get_discount_expiration_date is called, and comes to the one
\* enrollment, only when no date is passed and the user has exactly one
\* upsellable enrollment: the dates nothing reads are left None.
AllFacts ==
    {f \in Facts :
        (f.discount_expiration_date # None \/ f.enrollments # 1)
            => /\ f.schedule_start = None
               /\ f.created = None
               /\ f.course_start = None}

\* A learner and a course nothing but the flag, the dates and the bucket
\* can stand against.
FavourableFacts ==
    {f \in AllFacts :
        /\ ~f.has_ended /\ f.verified_mode /\ ~f.disabled /\ ~f.is_anonymous
        /\ ~f.other_enrollment /\ ~f.entitlement /\ ~f.enterprise}

\* max(a, b) of two dates
Max(a, b) == IF a >= b THEN a ELSE b

\* get_discount_expiration_date(user, course) when timezone.now() is t:
\* None unless the user has one upsellable enrollment in the course, else
\* a week after the content availability date: schedule.start, replaced by
\* enrollment.created when it is the date of course.start and
\* course.start < created < now; without a schedule max(created,
\* course.start), a TypeError when one of the two is None.
get_discount_expiration_date(f, t) ==
    IF f.enrollments # 1 THEN [error |-> "none", date |-> None]
    ELSE IF f.schedule_start # None
    THEN IF /\ f.created # None
            /\ f.course_start # None
            /\ f.schedule_start = f.course_start
            /\ f.course_start < f.created
            /\ f.created < t
         THEN [error |-> "none", date |-> f.created + Week]
         ELSE [error |-> "none", date |-> f.schedule_start + Week]
    ELSE IF f.created = None \/ f.course_start = None
    THEN [error |-> "TypeError", date |-> None]
    ELSE [error |-> "none", date |-> Max(f.created, f.course_start) + Week]

\* A request that has not called: the function called, whether the request
\* has the session, the local discount_expiration_date, what the clock
\* answered in get_discount_expiration_date, at line 99 and at line 145
\* (0: not asked), the value returned, and whether the call came to the
\* bucketing step and whether it tracked the event.
NotCalled ==
    [st |-> "none", fn |-> "none", has_session |-> FALSE, date |-> None,
     at_date |-> 0, at_expiry |-> 0, at_holdback |-> 0,
     result |-> FALSE, bucketed |-> FALSE, emitted |-> FALSE]

\* The call returns value.
Returned(call, value) == [call EXCEPT !.st = "ok", !.result = value]

\* _is_in_holdback returns held: to its caller, or to can_receive_discount
\* (lines 135-138), which returns False for a held user and True otherwise.
ReturnHeld(call, held) ==
    Returned(call, IF call.fn = "can_receive_discount" THEN ~held ELSE held)

\* The event of segment.track.
Bucketed(bucket) ==
    [event_name |-> "edx.bi.experiment.user.bucketed", bucket |-> bucket]

\* Expired that counts the present moment as past.
Expired_inclusive(date, t) == date <= t

\* discount_expiration_date < timezone.now()
Expired(date, t) == date < t

\* Lines 102-132 of can_receive_discount: none of the checks between the
\* expiration and the holdback returns False.
passes_checks(f) ==
    /\ ~f.has_ended
    /\ f.verified_mode
    /\ ~f.disabled
    /\ ~f.is_anonymous
    /\ ~f.other_enrollment
    /\ ~f.entitlement
    /\ ~f.enterprise

\* Lines 80-97 of can_receive_discount when the clock shows t: the flag,
\* the date passed or the one of get_discount_expiration_date.
begin_can_receive_discount(f, t, has_session) ==
    LET call == [NotCalled EXCEPT !.fn = "can_receive_discount",
                                  !.has_session = has_session]
        asked == [call EXCEPT !.at_date = t]
        got == get_discount_expiration_date(f, t)
    IN IF ~f.flag_enabled THEN Returned(call, FALSE)
       ELSE IF f.discount_expiration_date # None
       THEN [call EXCEPT !.st = "expiry", !.date = f.discount_expiration_date]
       ELSE IF got.error # "none" THEN [asked EXCEPT !.st = "raised"]
       ELSE IF got.date = None THEN Returned(asked, FALSE)
       ELSE [asked EXCEPT !.st = "expiry", !.date = got.date]

\* Lines 99-132 of can_receive_discount when the clock shows t.
check_expired(f, t, call) ==
    LET asked == [call EXCEPT !.at_expiry = t]
    IN IF Expired(call.date, t) THEN Returned(asked, FALSE)
       ELSE IF ~passes_checks(f) THEN Returned(asked, FALSE)
       ELSE [asked EXCEPT !.st = "holdback"]

\* Lines 145-152 of _is_in_holdback when the clock shows t and the session
\* holds sess: after 2020-08-01 nobody is held; else the bucket is
\* computed, and the event is to be tracked when the request has a
\* session without the key.
is_in_holdback(f, t, sess, call) ==
    LET asked == [call EXCEPT !.at_holdback = t]
    IN IF HoldbackEnd <= t THEN ReturnHeld(asked, FALSE)
       ELSE IF call.has_session /\ DISCOUNT_APPLICABILITY_HOLDBACK \notin sess
       THEN [asked EXCEPT !.st = "track", !.bucketed = TRUE]
       ELSE ReturnHeld([asked EXCEPT !.bucketed = TRUE], f.bucket = 0)

\* Any learner and course, a new session, no request yet.
InitDiscount ==
    /\ facts \in AllFacts
    /\ now = 1
    /\ session = {}
    /\ events = <<>>
    /\ discount = [r \in Requests |-> NotCalled]
    /\ OutlineIdle
    /\ TeamsIdle
    /\ BackfillIdle

\* A learner and a course on which the flag, the dates and the bucket
\* decide, at the earliest time; the session is new or has recorded a
\* bucketing before.
InitHoldback ==
    /\ facts \in FavourableFacts
    /\ now = 1
    /\ session \in {{}, {DISCOUNT_APPLICABILITY_HOLDBACK}}
    /\ events = <<>>
    /\ discount = [r \in Requests |-> NotCalled]
    /\ OutlineIdle
    /\ TeamsIdle
    /\ BackfillIdle

\* Request r calls can_receive_discount(user, course,
\* discount_expiration_date), with the session or without one.
CanReceiveDiscount(r) ==
    /\ discount[r].st = "none"
    /\ \E has_session \in BOOLEAN :
         discount' = [discount EXCEPT
                         ![r] = begin_can_receive_discount(facts, now, has_session)]
    /\ UNCHANGED <<facts, now, session, events, outline_vars, teams_vars,
                   backfill_vars>>

\* if discount_expiration_date < timezone.now(), and the checks down to
\* is_enterprise_learner.
CheckExpired(r) ==
    /\ discount[r].st = "expiry"
    /\ discount' = [discount EXCEPT ![r] = check_expired(facts, now, discount[r])]
    /\ UNCHANGED <<facts, now, session, events, outline_vars, teams_vars,
                   backfill_vars>>

\* if _is_in_holdback(user): the call of line 135, down to the test of
\* the session.
ExecuteHoldback(r) ==
    /\ discount[r].st = "holdback"
    /\ discount' = [discount EXCEPT
                       ![r] = is_in_holdback(facts, now, session, discount[r])]
    /\ UNCHANGED <<facts, now, session, events, outline_vars, teams_vars,
                   backfill_vars>>

\* Request r calls _is_in_holdback(user) directly, with the session or
\* without one: down to the test of the session.
IsInHoldback(r) ==
    /\ discount[r].st = "none"
    /\ \E has_session \in BOOLEAN :
         discount' = [discount EXCEPT
                         ![r] = is_in_holdback(facts, now, session,
                                    [NotCalled EXCEPT !.fn = "_is_in_holdback",
                                                      !.has_session = has_session])]
    /\ UNCHANGED <<facts, now, session, events, outline_vars, teams_vars,
                   backfill_vars>>

\* segment.track(...)
Track(r) ==
    /\ discount[r].st = "track"
    /\ events' = Append(events, Bucketed(facts.bucket))
    /\ discount' = [discount EXCEPT ![r].st = "mark", ![r].emitted = TRUE]
    /\ UNCHANGED <<facts, now, session, outline_vars, teams_vars, backfill_vars>>

\* request.session[DISCOUNT_APPLICABILITY_HOLDBACK] = True, and
\* return bucket == 0
Mark(r) ==
    /\ discount[r].st = "mark"
    /\ session' = session \cup {DISCOUNT_APPLICABILITY_HOLDBACK}
    /\ discount' = [discount EXCEPT ![r] = ReturnHeld(discount[r], facts.bucket = 0)]
    /\ UNCHANGED <<facts, now, events, outline_vars, teams_vars, backfill_vars>>

\* A week passes.
Tick ==
    /\ now < MaxDate + Week
    /\ now' = now + 1
    /\ UNCHANGED <<facts, session, events, discount, outline_vars, teams_vars,
                   backfill_vars>>

NextDiscount ==
    \/ CanReceiveDiscount(1)
    \/ CheckExpired(1)
    \/ ExecuteHoldback(1)
    \/ Track(1)
    \/ Mark(1)
    \/ Tick

NextHoldback ==
    \/ \E r \in Requests : CanReceiveDiscount(r)
    \/ \E r \in Requests : CheckExpired(r)
    \/ \E r \in Requests : ExecuteHoldback(r)
    \/ \E r \in Requests : IsInHoldback(r)
    \/ \E r \in Requests : Track(r)
    \/ \E r \in Requests : Mark(r)
    \/ Tick

\* One call of can_receive_discount for any learner and course, while
\* time passes.
SpecDiscount == InitDiscount /\ [][NextDiscount]_vars

\* Calls of _is_in_holdback, directly and through can_receive_discount,
\* by requests that share one session and are served at the same time.
SpecHoldback == InitHoldback /\ [][NextHoldback]_vars

\* ================================================================ backfill
\* course_overviews/management/commands/backfill_history.py: Command.handle
\* for the one table of TABLES.  A data line of the input file is its first
\* column, the id; every line has LineSize bytes.

\* Ids of the rows of the table.
MaxIds == 2
\* Data lines of the input file.
MaxLines == 4
\* The largest options['size'], in bytes.
MaxSize == 4
\* '+' rows an id has in the historical table before the command runs.
MaxRows == 2
\* Bytes of a data line, the line end included.
LineSize == 2

Ids == 1..MaxIds

\* input_file.readlines(byte_size) after read lines of the file were read:
\* the lines up to and including the first with which the bytes read
\* exceed the hint, all the lines left when the hint is not positive.
readlines(file, read, size) ==
    LET n == IF size <= 0 THEN Len(file) ELSE (size \div LineSize) + 1
    IN SubSeq(file, read + 1, IF read + n < Len(file) THEN read + n ELSE Len(file))

RECURSIVE SumOver(_, _)
\* The sum of f over the set S.
SumOver(f, S) ==
    IF S = {} THEN 0
    ELSE LET x == CHOOSE y \in S : TRUE IN f[x] + SumOver(f, S \ {x})

\* SELECT COUNT(1) FROM historical_table WHERE ID in (ids) AND
\* history_type='+': the '+' rows of the ids named, each id once.
historical_count(hist, ids) ==
    SumOver(hist, {ids[i] : i \in DOMAIN ids})

\* cursor.executemany(INSERT ..., values) inside transaction.atomic(): one
\* '+' row for every line of the batch.
executemany(hist, ids) ==
    [x \in DOMAIN hist |-> hist[x] + Cardinality({i \in DOMAIN ids : ids[i] = x})]

\* What handle does with a batch without the exception: whatever is not
\* there in full is inserted.
batch_action_lenient(count, n) ==
    IF count = n THEN "skipped" ELSE "inserted"

\* What handle does with a batch without the check for existing rows:
\* every batch is inserted.
batch_action_blind(count, n) == "inserted"

\* What handle does with a batch of n ids of which count '+' rows exist.
batch_action(count, n) ==
    IF count = n THEN "skipped"
    ELSE IF count # 0 THEN "raised"
    ELSE "inserted"

\* The batch the command reads at its offset, the count of the SELECT for
\* it now, and what the command does with the batch given the count it
\* read.
NextBatch == readlines(input_file, offset, byte_size)
NextCount == historical_count(historical, NextBatch)
NextAction == batch_action(fetched, Len(NextBatch))

\* The same for the second run.
OtherBatch == readlines(input_file, other.offset, byte_size)
OtherAction == batch_action(other.count, Len(OtherBatch))

\* Any input file, batch size and historical table; the command has not
\* been started.
InitBackfill ==
    /\ \E n \in 0..MaxLines : input_file \in [1..n -> Ids]
    /\ byte_size \in 0..MaxSize
    /\ historical \in [Ids -> 0..MaxRows]
    /\ offset = 0
    /\ command = "idle"
    /\ fetched = 0
    /\ other = NotStarted
    /\ outcomes = <<>>
    /\ OutlineIdle
    /\ TeamsIdle
    /\ DiscountIdle

\* handle up to the loop: the columns are read, the file is opened and the
\* header line is skipped.
StartBackfill ==
    /\ command = "idle"
    /\ command' = "running"
    /\ offset' = 0
    /\ UNCHANGED <<input_file, byte_size, historical, fetched, other, outcomes,
                   outline_vars, teams_vars, discount_vars>>

\* lines = input_file.readlines(byte_size), and the SELECT COUNT(1) for
\* the ids of the lines: a transaction of its own, that holds nothing when
\* it has returned.
BatchCount ==
    /\ command = "running"
    /\ NextBatch # <<>>
    /\ command' = "counted"
    /\ fetched' = NextCount
    /\ UNCHANGED <<input_file, byte_size, historical, offset, other, outcomes,
                   outline_vars, teams_vars, discount_vars>>

\* if count==len(ids): continue
BatchSkip ==
    /\ command = "counted"
    /\ NextAction = "skipped"
    /\ command' = "running"
    /\ fetched' = 0
    /\ offset' = offset + Len(NextBatch)
    /\ outcomes' = Append(outcomes, "skipped")
    /\ UNCHANGED <<input_file, byte_size, historical, other, outline_vars,
                   teams_vars, discount_vars>>

\* elif count!=0: raise Exception(...)
BatchRaise ==
    /\ command = "counted"
    /\ NextAction = "raised"
    /\ command' = "raised"
    /\ outcomes' = Append(outcomes, "raised")
    /\ UNCHANGED <<input_file, byte_size, historical, offset, fetched, other,
                   outline_vars, teams_vars, discount_vars>>

\* with transaction.atomic(): cursor.executemany(query, values), then the
\* sleep.  The rows are added to the table as it is now, whatever it was
\* when the count was read.
BatchInsert ==
    /\ command = "counted"
    /\ NextAction = "inserted"
    /\ historical' = executemany(historical, NextBatch)
    /\ command' = "running"
    /\ fetched' = 0
    /\ offset' = offset + Len(NextBatch)
    /\ outcomes' = Append(outcomes, "inserted")
    /\ UNCHANGED <<input_file, byte_size, other, outline_vars, teams_vars,
                   discount_vars>>

\* if not lines: break, and the end of handle.
FinishBackfill ==
    /\ command = "running"
    /\ NextBatch = <<>>
    /\ command' = "done"
    /\ UNCHANGED <<input_file, byte_size, historical, offset, fetched, other,
                   outcomes, outline_vars, teams_vars, discount_vars>>

NextBackfill ==
    \/ StartBackfill
    \/ BatchCount
    \/ BatchSkip
    \/ BatchRaise
    \/ BatchInsert
    \/ FinishBackfill

\* One run of the backfill_history command, the only writer of the table.
SpecBackfill == InitBackfill /\ [][NextBackfill]_vars

\* How runs end that can be followed by another run.
Ends == {"done", "interrupted"}

\* What a run did with its batches: the part of outcomes after the end
\* of the run before it.
ThisRun(log) ==
    LET ends == {i \in DOMAIN log : log[i] \in Ends}
        last == IF ends = {} THEN 0 ELSE CHOOSE i \in ends : \A j \in ends : j <= i
    IN SubSeq(log, last + 1, Len(log))

\* The command has been run before the run outcomes ends with.
Reran == \E i \in DOMAIN outcomes : outcomes[i] \in Ends

\* The process is stopped between two inserts: before a readlines, during
\* the sleep that follows a batch, or when a count was read and nothing
\* done with it yet.  The insert of a batch is one transaction, so the
\* batches inserted before stay and no batch is inserted in part.
Interrupt ==
    /\ command \in {"running", "counted"}
    /\ command' = "interrupted"
    /\ fetched' = 0
    /\ UNCHANGED <<input_file, byte_size, historical, offset, other, outcomes,
                   outline_vars, teams_vars, discount_vars>>

\* handle is entered again with the same options and the same file, after
\* a run that completed or was interrupted: the file is opened anew and
\* read from its first data line; the table is what the earlier runs left.
\* outcomes keeps what the run before did and how it ended.
Rerun ==
    /\ command \in Ends
    /\ command' = "running"
    /\ offset' = 0
    /\ outcomes' = Append(ThisRun(outcomes), command)
    /\ UNCHANGED <<input_file, byte_size, historical, fetched, other,
                   outline_vars, teams_vars, discount_vars>>

NextRerun ==
    \/ StartBackfill
    \/ BatchCount
    \/ BatchSkip
    \/ BatchRaise
    \/ BatchInsert
    \/ FinishBackfill
    \/ Interrupt
    \/ Rerun

\* Any number of runs of the backfill_history command over one input file
\* and one historical table, a run starting when the one before completed
\* or was interrupted; no two runs at the same time and no other writer.
SpecRerun == InitBackfill /\ [][NextRerun]_vars

\* The command is started a second time, with the same options and the
\* same file, while the first run is anywhere in its course.
OtherStart ==
    /\ command # "idle"
    /\ other.command = "idle"
    /\ other' = [other EXCEPT !.command = "running"]
    /\ UNCHANGED <<input_file, byte_size, historical, offset, command, fetched,
                   outcomes, outline_vars, teams_vars, discount_vars>>

\* The readlines and the SELECT COUNT(1) of the second run.
OtherCount ==
    /\ other.command = "running"
    /\ OtherBatch # <<>>
    /\ other' = [other EXCEPT !.command = "counted",
                              !.count = historical_count(historical, OtherBatch)]
    /\ UNCHANGED <<input_file, byte_size, historical, offset, command, fetched,
                   outcomes, outline_vars, teams_vars, discount_vars>>

\* if count==len(ids): continue, in the second run.
OtherSkip ==
    /\ other.command = "counted"
    /\ OtherAction = "skipped"
    /\ other' = [command |-> "running", count |-> 0,
                 offset |-> other.offset + Len(OtherBatch)]
    /\ UNCHANGED <<input_file, byte_size, historical, offset, command, fetched,
                   outcomes, outline_vars, teams_vars, discount_vars>>

\* elif count!=0: raise Exception(...), in the second run.
OtherRaise ==
    /\ other.command = "counted"
    /\ OtherAction = "raised"
    /\ other' = [other EXCEPT !.command = "raised"]
    /\ UNCHANGED <<input_file, byte_size, historical, offset, command, fetched,
                   outcomes, outline_vars, teams_vars, discount_vars>>

\* The insert of the second run.
OtherInsert ==
    /\ other.command = "counted"
    /\ OtherAction = "inserted"
    /\ historical' = executemany(historical, OtherBatch)
    /\ other' = [command |-> "running", count |-> 0,
                 offset |-> other.offset + Len(OtherBatch)]
    /\ UNCHANGED <<input_file, byte_size, offset, command, fetched, outcomes,
                   outline_vars, teams_vars, discount_vars>>

\* if not lines: break, in the second run.
OtherFinish ==
    /\ other.command = "running"
    /\ OtherBatch = <<>>
    /\ other' = [other EXCEPT !.command = "done"]
    /\ UNCHANGED <<input_file, byte_size, historical, offset, command, fetched,
                   outcomes, outline_vars, teams_vars, discount_vars>>

NextOverlap ==
    \/ StartBackfill
    \/ BatchCount
    \/ BatchSkip
    \/ BatchRaise
    \/ BatchInsert
    \/ FinishBackfill
    \/ OtherStart
    \/ OtherCount
    \/ OtherSkip
    \/ OtherRaise
    \/ OtherInsert
    \/ OtherFinish

\* Two runs of the backfill_history command over one input file and one
\* historical table at the same time: between the count of a batch and
\* what the run does with the batch the other run can count and insert.
SpecOverlap == InitBackfill /\ [][NextOverlap]_vars

\* ------------------------------------------------------- shape of a map

\* The ids a block's list refers to.
ChildIds(kids, b) == {kids[b][i] : i \in DOMAIN kids[b]}

RECURSIVE ReachFrom(_, _)
\* The blocks of the map reached from the blocks of S along child ids.
ReachFrom(kids, S) ==
    LET nxt == S \cup {c \in DOMAIN kids : \E b \in S : c \in ChildIds(kids, b)}
    IN IF nxt = S THEN S ELSE ReachFrom(kids, nxt)

Descendants(kids, b) == ReachFrom(kids, {b})
StrictDescendants(kids, b) == ReachFrom(kids, ChildIds(kids, b) \cap DOMAIN kids)

RECURSIVE ReachUp(_, _)
\* The blocks of the map from which a block of S is reached along child ids.
ReachUp(kids, S) ==
    LET nxt == S \cup {a \in DOMAIN kids : ChildIds(kids, a) \cap S # {}}
    IN IF nxt = S THEN S ELSE ReachUp(kids, nxt)

\* The block itself and the blocks it is reached from.
Ancestors(kids, b) == ReachUp(kids, {b})

Acyclic(kids) == \A b \in DOMAIN kids : b \notin StrictDescendants(kids, b)
AllPresent(kids) == \A b \in DOMAIN kids : ChildIds(kids, b) \subseteq DOMAIN kids

\* How often the lists of the blocks of S refer to c.
RefCount(kids, S, c) ==
    Cardinality({e \in UNION {{<<b, i>> : i \in DOMAIN kids[b]} : b \in S} :
                    kids[e[1]][e[2]] = c})

\* The map is a tree rooted at r: every block is reached from r, the root
\* is nobody's child and every other block is the child of one block, once.
IsTree(kids, r) ==
    /\ r \in DOMAIN kids
    /\ AllPresent(kids)
    /\ Descendants(kids, r) = DOMAIN kids
    /\ \A c \in DOMAIN kids :
         RefCount(kids, DOMAIN kids, c) = IF c = r THEN 0 ELSE 1

\* Among the blocks reached from r, no block is referred to twice and r
\* never: populate_children then enters every block at most once.
VisitedOnce(kids, r) ==
    \A c \in DOMAIN kids :
      RefCount(kids, Descendants(kids, r), c) <= IF c = r THEN 0 ELSE 1

\* A block reached from the root refers to an id the map lacks.
Dangling(kids, r) ==
    /\ r \in DOMAIN kids
    /\ \E b \in Descendants(kids, r) : ~(ChildIds(kids, b) \subseteq DOMAIN kids)

RECURSIVE NodeCount(_, _)
RECURSIVE NodeCountFrom(_, _, _)
\* The nodes of the tree under block b, following resolved children.
NodeCountFrom(h, b, i) ==
    IF i > Len(h[b].children) THEN 0
    ELSE (IF h[b].children[i].ref THEN NodeCount(h, h[b].children[i].id) ELSE 0)
         + NodeCountFrom(h, b, i + 1)
NodeCount(h, b) == 1 + NodeCountFrom(h, b, 1)

\* Every block's children are the blocks of its original child ids, in order.
ChildrenResolved(h, kids) ==
    \A b \in DOMAIN kids :
      /\ Len(h[b].children) = Len(kids[b])
      /\ \A i \in DOMAIN kids[b] : h[b].children[i] = RefEntry(kids[b][i])

\* get_course_outline_block_tree is over: it returned or raised.
Over == pc \in {"returned", "raised", "resumed"}

\* --------------------------------------------------------------- claims

\* C1 as stated: for every flat map that is acyclic, holds every child id
\* and holds the root, the tree is returned, has as many nodes as the map
\* has entries, and every block's children are its resolved child ids in
\* the original order.
C1_AsStated ==
    (Over /\ root \in DOMAIN flat /\ Acyclic(flat) /\ AllPresent(flat))
        => /\ pc = "returned"
           /\ retval = root
           /\ NodeCount(blocks, root) = Cardinality(DOMAIN flat)
           /\ ChildrenResolved(blocks, flat)

\* C1 amended: for every flat map that is a tree rooted at the root (every
\* entry reached from the root, no block the child of two lists or twice of
\* one), populate_children returns a tree with as many nodes as the map has
\* entries in which every block's children are its resolved child ids in
\* the original order.
C1_TreeOfATreeMap ==
    (Over /\ IsTree(flat, root))
        => /\ pc = "returned"
           /\ retval = root
           /\ NodeCount(blocks, root) = Cardinality(DOMAIN flat)
           /\ ChildrenResolved(blocks, flat)

\* A map of three blocks whose root lists its children in descending id
\* order was built, order kept.
C1_Witness ==
    /\ pc = "returned"
    /\ IsTree(flat, root)
    /\ Len(flat) = 3
    /\ \E b \in DOMAIN flat : Len(flat[b]) = 2 /\ flat[b][1] > flat[b][2]
    /\ \E b \in DOMAIN flat : b # root /\ Len(flat[b]) = 0
    /\ NodeCount(blocks, root) = 3

\* C9 as stated: when a block reached from the root refers to an id the map
\* lacks, tree construction fails with a lookup error and returns no tree.
C9_AsStated ==
    (Over /\ Dangling(flat, root))
        => pc = "raised" /\ error = "KeyError" /\ retval = None

\* C9 amended: when a block reached from the root refers to an id the map
\* lacks, tree construction fails with an exception that reaches the
\* caller: no tree is returned and nothing runs after it.  The exception is
\* the lookup error (KeyError) when no block reached from the root is
\* referred to twice; a cycle or a block referred to twice can end the
\* construction earlier with RecursionError or TypeError.
C9_MissingChildRaises ==
    (Over /\ Dangling(flat, root))
        => /\ pc = "raised"
           /\ error \in {"KeyError", "TypeError", "RecursionError"}
           /\ retval = None
           /\ ~ENABLED NextBuild
           /\ VisitedOnce(flat, root) => error = "KeyError"

\* The lookup error was raised for a missing child of a block below the
\* root, after the root's list had been entered.
C9_Witness ==
    /\ pc = "raised"
    /\ error = "KeyError"
    /\ VisitedOnce(flat, root)
    /\ \E b \in Descendants(flat, root) :
         b # root /\ ~(ChildIds(flat, b) \subseteq DOMAIN flat)

\* The tree was returned to an authenticated user, decorated.
Decorated == pc \in {"returned", "resumed"} /\ user /\ retval # None

\* The blocks marked resume_block.
ResumeSet == {b \in DOMAIN blocks : blocks[b].resume_block = True}

IsComplete(b) == blocks[b].complete = True

\* The block came with children from the blocks API.
IsContainer(b) == Len(flat[b]) > 0

\* The children of b that are no discussions.
NonDiscussionKids(b) == {c \in ChildIds(flat, b) : blocks[c].type # "discussion"}

\* C2 as stated: when one block of the tree has the key of the latest
\* completion, the blocks marked resume_block after completion marking are
\* that block and its ancestors up to the root, and no other.
C2_AsStated ==
    (Decorated /\ latest \in DOMAIN blocks)
        => ResumeSet = Ancestors(flat, latest)

\* C2 amended: when one block of the tree has the key of the latest
\* completion and the completion set holds a non-zero value for that key,
\* the blocks marked resume_block after completion marking are that block
\* and its ancestors up to the root, and no other.
C2_ResumeChain ==
    (Decorated /\ latest \in DOMAIN blocks /\ Completed(completions, latest))
        => ResumeSet = Ancestors(flat, latest)

\* The latest completion is the first of two completed children of the
\* root: it and the root are marked, its completed sibling is not.
C2_Witness ==
    /\ Decorated
    /\ flat = <<(<<2, 3>>), <<>>, <<>>>>
    /\ latest = 2
    /\ Completed(completions, 2) /\ Completed(completions, 3)
    /\ ResumeSet = {1, 2}

\* C3: without a completion set (the learner has no latest completion) every
\* block of the tree returned to an authenticated user has complete = false
\* and resume_block = false.
C3_NoCompletionsNoMarks ==
    (Decorated /\ latest = None)
        => \A b \in DOMAIN blocks :
             blocks[b].complete = False /\ blocks[b].resume_block = False

\* A tree with a container of discussions only was returned unmarked.
C3_Witness ==
    /\ Decorated
    /\ latest = None
    /\ Len(blocks) = 3
    /\ \E b \in DOMAIN blocks : IsContainer(b) /\ NonDiscussionKids(b) = {}
    /\ \A b \in DOMAIN blocks : blocks[b].complete = False

\* C4 as stated: after completion marking every block whose child sequence
\* is empty once discussions are left out is complete, a block without any
\* child and without a completion of its own included.
C4_AsStated ==
    (Decorated /\ latest # None)
        => \A b \in DOMAIN blocks : NonDiscussionKids(b) = {} => IsComplete(b)

\* C4 amended: after completion marking a block that has children, all of
\* them discussions, is complete whether or not its own key is in the
\* completion set; a block without any child is complete exactly when the
\* completion set holds a non-zero value for its own key.
C4_DiscussionOnlyContainer ==
    (Decorated /\ latest # None)
        => \A b \in DOMAIN blocks :
             /\ (IsContainer(b) /\ NonDiscussionKids(b) = {}) => IsComplete(b)
             /\ ~IsContainer(b) => (IsComplete(b) <=> Completed(completions, b))

\* A block whose only child is an incomplete discussion, and whose own key
\* has no completion, is complete.
C4_Witness ==
    /\ Decorated
    /\ latest # None
    /\ \E b \in DOMAIN blocks :
         /\ IsContainer(b) /\ NonDiscussionKids(b) = {}
         /\ ~Completed(completions, b)
         /\ \A c \in ChildIds(flat, b) : ~IsComplete(c)
         /\ IsComplete(b)

\* C5: after completion marking a container all of whose children other
\* than discussions are complete is complete, whatever the flags of its
\* discussion children are.
C5_DiscussionsNeverBlock ==
    (Decorated /\ latest # None)
        => \A b \in DOMAIN blocks :
             (IsContainer(b) /\ \A c \in NonDiscussionKids(b) : IsComplete(c))
                 => IsComplete(b)

\* A container without a completion of its own, with one complete child
\* that is no discussion and one incomplete discussion child, is complete.
C5_Witness ==
    /\ Decorated
    /\ latest # None
    /\ \E b \in DOMAIN blocks :
         /\ ~Completed(completions, b)
         /\ \E i, j \in DOMAIN blocks[b].children :
              /\ blocks[blocks[b].children[i].id].type # "discussion"
              /\ IsComplete(blocks[b].children[i].id)
              /\ blocks[blocks[b].children[j].id].type = "discussion"
              /\ ~IsComplete(blocks[b].children[j].id)
         /\ IsComplete(b)

\* C6 as stated: get_resume_block returns None on any tree in which no block
\* has resume_block = true, whether the field is false or was never set, and
\* returns the root on a tree that is a marked, accessible root without
\* children.
C6_AsStated ==
    pc = "resumed"
        => /\ (\A b \in DOMAIN blocks : blocks[b].resume_block # True)
                => resume = Found(None)
           /\ (Len(blocks) = 1 /\ blocks[root].resume_block = True
                   /\ ~blocks[root].denied)
                => resume = Found(root)

\* C6, what the code does: None on a tree every block of which carries
\* resume_block = false, the root on a marked accessible root alone, and on
\* a tree without the field None for a denied root and KeyError otherwise.
C6_NoneUnmarkedRootAlone ==
    pc = "resumed"
        => /\ (\A b \in DOMAIN blocks : blocks[b].resume_block = False)
                => resume = Found(None)
           /\ (Len(blocks) = 1 /\ blocks[root].resume_block = True
                   /\ ~blocks[root].denied)
                => resume = Found(root)
           /\ (blocks[root].resume_block = Absent /\ blocks[root].denied)
                => resume = Found(None)
           /\ (blocks[root].resume_block = Absent /\ ~blocks[root].denied)
                => resume = [st |-> "KeyError", block |-> None]

\* The lookup raised KeyError on an accessible root without children and
\* without the field: no block of the tree has resume_block = true.
C6_RaisedOnRootAlone ==
    /\ pc = "resumed"
    /\ Len(blocks) = 1
    /\ \A b \in DOMAIN blocks : blocks[b].resume_block # True
    /\ ~blocks[root].denied
    /\ resume.st = "KeyError"

\* The lookup returned the root of a tree that is a marked root alone.
C6_Witness ==
    /\ pc = "resumed"
    /\ Len(blocks) = 1
    /\ blocks[root].resume_block = True
    /\ resume = Found(root)

\* C7 as stated: get_resume_block returns None as soon as its descent meets
\* an access-denied block, at any depth; taken for the denied blocks that
\* lie on the marked path the descent follows.
C7_AsStated ==
    (pc = "resumed" /\ \E d \in Encountered(blocks, root) :
                          blocks[d].denied /\ blocks[d].resume_block = True)
        => resume = Found(None)

\* C7 amended: get_resume_block returns None for the block it is called on
\* when that block is access-denied, whatever is marked below it: a denied
\* root gives None, and the block returned is never a denied block nor
\* below one.  A denied block met below the root ends only its own branch:
\* the lookup goes on with the next child and falls back to the parent.
C7_DeniedBranchGivesNothing ==
    /\ \A d \in DOMAIN blocks :
         (pc \in {"returned", "resumed"} /\ blocks[d].denied)
             => get_resume_block(blocks, d) = Found(None)
    /\ pc = "resumed"
         => /\ blocks[root].denied => resume = Found(None)
            /\ resume.block # None
                 => \A a \in Ancestors(flat, resume.block) : ~blocks[a].denied

\* The marked chain runs through a denied child of the root down to a
\* marked grandchild: the lookup returned the root.
C7_Witness ==
    /\ pc = "resumed"
    /\ flat = <<(<<2>>), <<3>>, <<>>>>
    /\ blocks[2].denied /\ ~blocks[1].denied
    /\ ResumeSet = {1, 2, 3}
    /\ resume = Found(1)

\* C8: when mark_last_accessed is called on a container with children whose
\* stored position is larger than its child count, the container and its
\* last child are marked resume_block, the student module of no child is
\* fetched, nothing else below the container is marked, and no list index
\* misses (no IndexError).
C8_PositionPastTheEnd ==
    pc \in {"last_marked", "raised"}
        => \A b \in looked :
             (IsContainer(b) /\ position[b] > Len(flat[b]))
                 => LET last == flat[b][Len(flat[b])] IN
                    /\ error = "none"
                    /\ blocks[b].resume_block = True
                    /\ blocks[last].resume_block = True
                    /\ looked \cap ChildIds(flat, b) = {}
                    /\ \A d \in StrictDescendants(flat, b) \ {last} :
                         blocks[d].resume_block = False

\* The root has one child and the stored position 2; the child has a child
\* and a stored position of its own, which was not followed.
C8_Witness ==
    /\ pc = "last_marked"
    /\ flat = <<(<<2>>), <<3>>, <<>>>>
    /\ position = <<2, 1, 0>>
    /\ ResumeSet = {1, 2}
    /\ looked = {1}

\* C10 as stated: in the tree returned to an authenticated user a stored
\* position on the root, when the root has children, has resume_block set
\* on the root (the resume-point pass ran).
C10_AsStated ==
    (Decorated /\ position[root] # 0 /\ IsContainer(root))
        => blocks[root].resume_block = True

\* C10 amended: the tree returned to an authenticated user has been
\* decorated by the default flags and by completion propagation only;
\* mark_last_accessed is not called, so stored positions mark nothing:
\* resume_block is set on the block of the latest completion (when its
\* completion value is non-zero) and its ancestors, and on no other block.
C10_CompletionPassOnly ==
    Decorated
        => /\ \A b \in DOMAIN blocks :
                blocks[b].complete # Absent /\ blocks[b].resume_block # Absent
           /\ ResumeSet = IF latest \in DOMAIN blocks /\ Completed(completions, latest)
                          THEN Ancestors(flat, latest)
                          ELSE {}

\* The completion pass ran and completed a block, the root has children
\* and a stored position, and the root is not marked.
C10_Witness ==
    /\ Decorated
    /\ position[root] # 0
    /\ IsContainer(root)
    /\ \E b \in DOMAIN blocks : IsComplete(b)
    /\ blocks[root].resume_block = False

\* The tree was returned as built, without the marking passes: no block
\* carries a resume_block field.
Unmarked == \A b \in DOMAIN blocks : blocks[b].resume_block = Absent

\* C11 as stated: get_resume_block on a tree on which the marking passes
\* never set a resume_block field on any block (the tree returned to a
\* request without a user) returns nothing and does not fail.
C11_AsStated ==
    (pc = "resumed" /\ ~user /\ Unmarked) => resume = Found(None)

\* C11, what the code does: on the field-less tree the lookup returns nothing
\* when the root is access-denied and raises KeyError otherwise.
C11_UnmarkedTreeRaises ==
    (pc = "resumed" /\ ~user /\ Unmarked)
        => resume = IF blocks[root].denied
                    THEN Found(None)
                    ELSE [st |-> "KeyError", block |-> None]

\* The lookup raised KeyError on the tree of a request without a user.
C11_Raised ==
    /\ pc = "resumed"
    /\ ~user
    /\ Unmarked
    /\ Len(blocks) = 3
    /\ resume.st = "KeyError"

\* The completion set holds a non-zero value for the block's key.
NonZeroCompletion(b) == b \in DOMAIN completions /\ completions[b] # 0

\* The block is a container all of whose children other than discussions
\* are complete.
KidsComplete(b) == IsContainer(b) /\ \A c \in NonDiscussionKids(b) : IsComplete(c)

\* C13 as stated: after completion marking a block is complete if and only
\* if its own key is present in the completion set, or it is a container
\* and each of its children other than discussions is complete.
C13_AsStated ==
    (Decorated /\ latest # None)
        => \A b \in DOMAIN blocks :
             IsComplete(b) <=> (b \in DOMAIN completions \/ KidsComplete(b))

\* C13 amended: after completion marking a block is complete if and only if
\* the completion set holds a non-zero value for its own key, or it is a
\* container (it has at least one child) and each of its children other
\* than discussions is complete.
C13_CompleteIff ==
    (Decorated /\ latest # None)
        => \A b \in DOMAIN blocks :
             IsComplete(b) <=> (NonZeroCompletion(b) \/ KidsComplete(b))

\* Of the two children of the root one has an entry with the completion
\* value 0 and is not complete, the other has a non-zero value and is
\* complete; the root, without a completion of its own, is not complete.
C13_Witness ==
    /\ Decorated
    /\ latest # None
    /\ flat = <<(<<2, 3>>), <<>>, <<>>>>
    /\ 2 \in DOMAIN completions /\ completions[2] = 0 /\ ~IsComplete(2)
    /\ NonZeroCompletion(3) /\ IsComplete(3)
    /\ ~NonZeroCompletion(1) /\ ~IsComplete(1)

\* Every block with a marked descendant is marked.
MarksLifted ==
    \A d \in DOMAIN blocks :
      blocks[d].resume_block = True
          => \A b \in Ancestors(flat, d) : blocks[b].resume_block = True

\* C14 as stated: after completion marking with a latest completion, the
\* block whose key is the latest completion's key is marked resume_block
\* whether or not the completion set holds a (non-zero) value for that key,
\* and every block with a marked descendant is marked.
C14_AsStated ==
    (Decorated /\ latest # None)
        => /\ latest \in DOMAIN blocks => blocks[latest].resume_block = True
           /\ MarksLifted

\* C14 amended: after completion marking with a latest completion, the
\* block whose key is the latest completion's key is marked resume_block
\* exactly when the completion set holds a non-zero value for that key, and
\* every block with a marked descendant is marked.
C14_LatestMarkedWhenCompleted ==
    (Decorated /\ latest # None)
        => /\ latest \in DOMAIN blocks
                => (blocks[latest].resume_block = True <=> NonZeroCompletion(latest))
           /\ MarksLifted

\* The latest completion is the grandchild of the root, with a non-zero
\* value: it, its parent and the root are marked.
C14_Witness ==
    /\ Decorated
    /\ flat = <<(<<2>>), <<3>>, <<>>>>
    /\ latest = 3
    /\ NonZeroCompletion(3)
    /\ \A b \in 1..3 : blocks[b].resume_block = True

\* The block is marked resume_block and carries no access-denial marker.
MarkedAndFree(b) == blocks[b].resume_block = True /\ ~blocks[b].denied

\* C15: whenever get_resume_block(root) returns a block B, B and each of its
\* ancestors up to the root are marked resume_block and carry no
\* access-denial marker, and B has no child that is both marked and free of
\* an access-denial marker.
C15_DeepestMarkedFree ==
    (pc = "resumed" /\ resume.block # None)
        => /\ resume.st = "ok"
           /\ \A a \in Ancestors(flat, resume.block) : MarkedAndFree(a)
           /\ \A c \in ChildIds(flat, resume.block) : ~MarkedAndFree(c)

\* The lookup returned the child of the root: the child's own child is
\* marked as well, but access-denied.
C15_Witness ==
    /\ pc = "resumed"
    /\ flat = <<(<<2>>), <<3>>, <<>>>>
    /\ blocks[3].resume_block = True /\ blocks[3].denied
    /\ resume = Found(2)

\* The marked blocks are none, or one block and its ancestors up to the
\* root: a single chain from the root downward.
MarkedChain ==
    \/ ResumeSet = {}
    \/ \E d \in DOMAIN blocks : ResumeSet = Ancestors(flat, d)

\* C16: after mark_last_accessed on the root, for every block the function
\* was called on: with children and a stored position p, 1 <= p <= child
\* count, the block and its child at list index p - 1 are marked and that
\* child is the only child the function is called on; with no stored
\* position or no children the call marks neither the block (it is marked
\* only as the chosen child of its parent, the root not at all) nor anything
\* below it.  The marked blocks form one chain from the root downward.
C16_PositionChain ==
    pc \in {"last_marked", "raised"}
        => /\ error = "none"
           /\ \A b \in looked :
                LET p == position[b]
                    n == Len(flat[b])
                IN /\ (n > 0 /\ 1 <= p /\ p <= n)
                        => /\ blocks[b].resume_block = True
                           /\ blocks[flat[b][p]].resume_block = True
                           /\ looked \cap ChildIds(flat, b) = {flat[b][p]}
                   /\ (p = 0 \/ n = 0)
                        => /\ blocks[b].resume_block = True <=> b # root
                           /\ \A d \in StrictDescendants(flat, b) :
                                blocks[d].resume_block = False /\ d \notin looked
           /\ MarkedChain

\* The root has two children and the stored position 2: the root and its
\* second child are marked, the function was called on these two only.
C16_Witness ==
    /\ pc = "last_marked"
    /\ flat = <<(<<2, 3>>), <<>>, <<>>>>
    /\ position[1] = 2
    /\ ResumeSet = {1, 3}
    /\ looked = {1, 3}

\* Neither the block nor any of its ancestors carries an access-denial marker.
PathFree(b) == \A a \in Ancestors(flat, b) : ~blocks[a].denied

\* C17 as stated: on the tree decorated for an authenticated user, when one
\* block has the key of the latest completion, that key has an entry in the
\* completion set, and neither the block nor any ancestor is access-denied,
\* get_resume_block(root) returns that block.
C17_AsStated ==
    (pc = "resumed" /\ user /\ latest \in DOMAIN blocks
         /\ latest \in DOMAIN completions /\ PathFree(latest))
        => resume = Found(latest)

\* C17 amended: on the tree decorated for an authenticated user, when one
\* block has the key of the latest completion, the completion set holds a
\* non-zero value for that key, and neither the block nor any ancestor is
\* access-denied, get_resume_block(root) returns that block; when the value
\* is 0 nothing is marked and the lookup returns nothing.
C17_ResumeAtLatest ==
    (pc = "resumed" /\ user /\ latest \in DOMAIN blocks /\ PathFree(latest))
        => resume = IF NonZeroCompletion(latest) THEN Found(latest) ELSE Found(None)

\* The latest completion is the second child of the root; the first child
\* is completed too and the lookup passed it by.
C17_Witness ==
    /\ pc = "resumed"
    /\ user
    /\ flat = <<(<<2, 3>>), <<>>, <<>>>>
    /\ latest = 3
    /\ NonZeroCompletion(2) /\ NonZeroCompletion(3)
    /\ PathFree(3)
    /\ resume = Found(3)

\* The team the discussion of the last call belongs to (None: no team).
TeamAsked == get_team_by_discussion(teams, visible.discussion_id)

\* C12 as stated: discussion_visibile_by_user returns False exactly when the
\* discussion belongs to a team, that team is configured to hide its
\* discussions from non-members, and the user is not a member of the team.
C12_AsStated ==
    visible.st = "ok"
        => (visible.result = FALSE
              <=> /\ TeamAsked # None
                  /\ teams[TeamAsked].hides_discussions
                  /\ visible.user \notin teams[TeamAsked].users)

\* C12, what the code does: it returns False exactly when the discussion
\* belongs to a team and the user is not a member of it, whatever the team
\* is configured to.
C12_EveryTeamPrivate ==
    visible.st = "ok"
        => (visible.result = FALSE
              <=> /\ TeamAsked # None
                  /\ visible.user \notin teams[TeamAsked].users)

\* The discussion of a team that does not hide its discussions was found
\* not visible to a user outside the team.
C12_HiddenThoughOpen ==
    /\ visible.st = "ok"
    /\ TeamAsked # None
    /\ ~teams[TeamAsked].hides_discussions
    /\ visible.user \notin teams[TeamAsked].users
    /\ visible.result = FALSE

\* The call of can_receive_discount of the first request.
TheCall == discount[1]

\* The expiration date the call worked with: the argument, or the one of
\* the one enrollment (None: none): a week after enrollment.created in the
\* case of PROD-58, else after schedule.start, or without a schedule after
\* the later of enrollment.created and course.start.
ExpirationDate ==
    LET f == facts IN
    IF f.discount_expiration_date # None THEN f.discount_expiration_date
    ELSE IF f.enrollments # 1 THEN None
    ELSE IF f.schedule_start = None
    THEN IF f.created = None \/ f.course_start = None THEN None
         ELSE IF f.created > f.course_start THEN f.created + Week
         ELSE f.course_start + Week
    ELSE IF f.created = None \/ f.course_start = None THEN f.schedule_start + Week
    ELSE IF f.schedule_start = f.course_start /\ f.course_start < f.created
            /\ f.created < TheCall.at_date
    THEN f.created + Week
    ELSE f.schedule_start + Week

\* The user was in the holdback group when the call asked: in bucket 0 of
\* the two, while the holdback lasted (before 2020-08-01).
InHoldbackGroup == facts.bucket = 0 /\ TheCall.at_holdback < HoldbackEnd

\* C18: can_receive_discount returns True if and only if the flag is
\* enabled, a discount expiration date exists and is not in the past, the
\* course has not ended and has a non-expired verified mode, discounts are
\* not disabled for it, the user is not anonymous, has no enrollment in a
\* non-upsellable mode, no entitlement, is no enterprise learner and is not
\* in the holdback group; with the flag disabled it returns False.  The
\* past is what the clock showed when the date was compared, the holdback
\* what it showed when _is_in_holdback asked; a call that raises returns
\* nothing, and it raises only for want of a date, with the flag enabled.
C18_DiscountIff ==
    /\ (TheCall.st = "ok" /\ TheCall.fn = "can_receive_discount")
        => /\ TheCall.result = TRUE
                <=> /\ facts.flag_enabled
                    /\ ExpirationDate # None
                    /\ ExpirationDate >= TheCall.at_expiry
                    /\ ~facts.has_ended
                    /\ facts.verified_mode
                    /\ ~facts.disabled
                    /\ ~facts.is_anonymous
                    /\ ~facts.other_enrollment
                    /\ ~facts.entitlement
                    /\ ~facts.enterprise
                    /\ ~InHoldbackGroup
           /\ ~facts.flag_enabled => TheCall.result = FALSE
    /\ TheCall.st = "raised" => facts.flag_enabled /\ ExpirationDate = None
    /\ (~facts.flag_enabled /\ TheCall.st # "none") => TheCall.st = "ok"

\* The discount was granted on the day it expires, to a user of bucket 0
\* after the holdback had ended, the date taken from the enrollment, whose
\* schedule started with the course before the user enrolled (PROD-58).
C18_Witness ==
    /\ TheCall.st = "ok"
    /\ TheCall.fn = "can_receive_discount"
    /\ TheCall.result = TRUE
    /\ facts.discount_expiration_date = None
    /\ facts.schedule_start = facts.course_start
    /\ facts.created > facts.course_start
    /\ ExpirationDate = facts.created + Week
    /\ ExpirationDate = TheCall.at_expiry
    /\ facts.bucket = 0

\* C19 as stated: over the calls of _is_in_holdback, direct or through
\* can_receive_discount, made with requests that share one session, the
\* event edx.bi.experiment.user.bucketed is tracked at most once, and every
\* call after the one that tracked it tracks nothing.
C19_AsStated == Len(events) <= 1

\* Two requests of one session both found the session without the key
\* before either had set it, and both tracked the event.
C19_TrackedTwice ==
    /\ Len(events) = 2
    /\ \A r \in {1, 2} : discount[r].st = "ok" /\ discount[r].emitted
    /\ DISCOUNT_APPLICABILITY_HOLDBACK \in session

\* The '+' rows that exist for the ids of the batch about to be read.
ExistingForBatch ==
    LET named == {NextBatch[i] : i \in DOMAIN NextBatch} IN
    Cardinality({r \in Ids \X (1..(MaxRows + MaxLines)) :
                    r[1] \in named /\ r[2] <= historical[r[1]]})

\* The table after one row was added for every line of the batch.
BatchAdded ==
    [x \in Ids |-> historical[x] + Cardinality({i \in DOMAIN NextBatch : NextBatch[i] = x})]

\* What the steps of a run do with the batch it reads: the count it reads
\* is the number of '+' rows that exist for the ids of the batch; it
\* inserts the batch, whole, only when that count is 0; it passes on
\* without inserting when the count is the number of ids of the batch;
\* otherwise it raises and inserts nothing; after the exception the run
\* does nothing; and no row, of an earlier batch or any other, is taken
\* from the table.
BatchRule ==
    /\ \A x \in Ids : historical'[x] >= historical[x]
    /\ (command = "running" /\ NextBatch # <<>> /\ other' = other)
         => /\ command' = "counted"
            /\ fetched' = ExistingForBatch
            /\ historical' = historical
            /\ offset' = offset
    /\ (historical' # historical /\ other' = other)
         => /\ command = "counted"
            /\ fetched = 0
    /\ (command = "counted" /\ other' = other)
         => /\ fetched = 0
                 => /\ historical' = BatchAdded
                    /\ offset' = offset + Len(NextBatch)
                    /\ command' = "running"
            /\ fetched = Len(NextBatch)
                 => /\ historical' = historical
                    /\ offset' = offset + Len(NextBatch)
                    /\ command' = "running"
            /\ fetched \notin {0, Len(NextBatch)}
                 => /\ command' = "raised"
                    /\ historical' = historical
                    /\ offset' = offset
    /\ command = "raised"
         => /\ command' = "raised"
            /\ offset' = offset
            /\ other' = other => historical' = historical

\* After the exception the batch that raised it is the one at the offset,
\* with a count that is neither 0 nor its size; the batches before it were
\* inserted or skipped.
RaisedOnMismatch ==
    command = "raised"
        => /\ NextBatch # <<>>
           /\ fetched \notin {0, Len(NextBatch)}
           /\ outcomes[Len(outcomes)] = "raised"
           /\ \A i \in 1..(Len(outcomes) - 1) : outcomes[i] \in {"inserted", "skipped"}

\* C20: when for some batch the number of existing '+' rows for the ids of
\* the batch is neither 0 nor the number of ids in the batch, handle
\* raises, inserts no row for that batch or for any later batch, and leaves
\* the rows inserted for earlier batches in place; a batch is inserted only
\* when that count is 0 and is skipped, nothing inserted, when the count
\* equals the size of the batch.  The count is the one the SELECT of the
\* batch returned.
C20_InsertOnlyAbsent == []RaisedOnMismatch /\ [][BatchRule]_vars

\* The command, the only writer, inserted the first batch and raised on
\* the second, of whose two ids one had a '+' row; the rows of the first
\* batch are in the table.
C20_Witness ==
    /\ command = "raised"
    /\ other = NotStarted
    /\ outcomes = <<"inserted", "raised">>
    /\ Len(NextBatch) = 2
    /\ fetched = 1
    /\ ExistingForBatch = 1
    /\ historical[input_file[1]] >= 1

\* Every data line of the input file has its own id.
InputDistinct ==
    \A i, j \in DOMAIN input_file : input_file[i] = input_file[j] => i = j

\* Every id of the input file has exactly one '+' row.
OneRowEach ==
    \A i \in DOMAIN input_file : historical[input_file[i]] = 1

\* The lines of the input file by batch, as the size option cuts them: the
\* lines of a batch are those from its first line to the line before the
\* first line of the next.
BatchLines ==
    IF byte_size <= 0 THEN Len(input_file) ELSE (byte_size \div LineSize) + 1
BatchFirsts ==
    {k \in DOMAIN input_file : (k - 1) % BatchLines = 0}
LinesOfBatch(k) ==
    {i \in DOMAIN input_file : k <= i /\ i < k + BatchLines}

\* The ids of the input file are distinct and the table holds, for every
\* batch, either no '+' row for any of its ids or exactly one for each:
\* the table before any backfill, and what batches inserted whole make of
\* it.
Backfillable ==
    /\ InputDistinct
    /\ \A k \in BatchFirsts :
         \/ \A i \in LinesOfBatch(k) : historical[input_file[i]] = 0
         \/ \A i \in LinesOfBatch(k) : historical[input_file[i]] = 1

\* C21 as stated, for any input file and any table: once the command has
\* run again after a run that completed or was interrupted between
\* batches, the run ends completed with exactly one '+' row for every id
\* of the input.
C21_AsStated ==
    (Reran /\ command \in {"done", "raised"})
        => (command = "done" /\ OneRowEach)

\* A run over such an input and table never raises, and when it has
\* completed every id of the input has exactly one '+' row.
RunsEndBackfilled ==
    Backfillable
        => /\ command # "raised"
           /\ command = "done" => OneRowEach

\* A step of a run or between runs keeps such a table such a table and
\* gives a row only to an id that had none, one row; and over an input
\* of which every id has exactly one '+' row no step inserts anything.
InsertsOnce ==
    /\ Backfillable
         => /\ Backfillable'
            /\ \A x \in Ids :
                 historical'[x] # historical[x]
                     => historical[x] = 0 /\ historical'[x] = 1
    /\ OneRowEach => historical' = historical

\* C21: the command is idempotent over reruns with the same input and the
\* same batch boundaries when the ids of the input are distinct and every
\* batch has, in the table, either no '+' row or exactly one for each of
\* its ids: no run raises, a run that completes leaves exactly one '+' row
\* for every id of the input, whatever runs came before it, completed or
\* interrupted between batches; no id is given a second row; and a run
\* over an input whose ids all have exactly one '+' row inserts nothing.
C21_IdempotentReruns == []RunsEndBackfilled /\ [][InsertsOnce]_vars

\* A run inserted the first batch and was interrupted; the next run
\* skipped that batch, inserted the second and completed; every id of the
\* input has exactly one '+' row.
C21_Witness ==
    /\ command = "done"
    /\ outcomes = <<"inserted", "interrupted", "skipped", "inserted">>
    /\ Len(input_file) = 2
    /\ Backfillable
    /\ OneRowEach

====
